---- MODULE Spec2Model ----
(***************************************************************************)
(* Model of the key-lime-pie-store ETL loader (analytics_project/          *)
(* etl_to_dw.py): CSV normalisation, the SQLite star schema and the        *)
(* load_data_to_db pipeline.                                               *)
(*                                                                         *)
(* Text is modelled as a sequence of one-character strings, a CSV file as  *)
(* a frame of text cells, and a pandas DataFrame as a record               *)
(*   [columns, index, rows]                                                *)
(* whose index carries the row labels the code later turns into sales_id.  *)
(***************************************************************************)
EXTENDS Integers, Sequences, FiniteSets, TLC

VARIABLES
    files,      \* the three input files: [exists, df]
    store,      \* the SQLite database: per table [exists, rows]
    pc,         \* position of load_data_to_db
    truncate,   \* the truncate argument of the current run
    frames,     \* the normalised in-memory frames of the current run
    fkeys,      \* key sets insert_sales read back from the store
    error,      \* exception raised to the caller of the current run ("" if none)
    log,        \* steps and messages the current run has emitted, in order
    prev,       \* how the previous run left things: [store, pc, error, truncate]
    call        \* a direct call of one function: [fn, arg, result]

vars == <<files, store, pc, truncate, frames, fkeys, error, log, prev, call>>

\* --------------------------------------------------------------------------
\* Bounds of the model
\* --------------------------------------------------------------------------
\* longest code cell handed to the key extraction
MaxCodeLen == 3
\* most rows of a frame handed to a normaliser on its own
MaxRows == 4
\* most spaces around a column header
MaxPad == 1
\* most rows of a dimension file read by load_data_to_db
MaxDimRows == 2
\* most rows of the sales file read by load_data_to_db
MaxSalesRows == 2
\* rows of the generated date dimension that the modelled store keeps
MaxDimDates == 3

\* pandas <NA> / NaN in a numeric column (all real values of the model are >= 0)
NA == 0 - 1

\* --------------------------------------------------------------------------
\* Text
\* --------------------------------------------------------------------------
H_customersegmentid == <<"c","u","s","t","o","m","e","r","s","e","g","m","e","n","t","i","d">>
H_customersegment == <<"c","u","s","t","o","m","e","r","s","e","g","m","e","n","t">>
H_productid == <<"p","r","o","d","u","c","t","i","d">>
H_productvariant == <<"p","r","o","d","u","c","t","v","a","r","i","a","n","t">>
H_transactionid == <<"t","r","a","n","s","a","c","t","i","o","n","i","d">>
H_date == <<"d","a","t","e">>
H_unitssold == <<"u","n","i","t","s","s","o","l","d">>
H_revenue == <<"r","e","v","e","n","u","e">>
H_profitmargin == <<"p","r","o","f","i","t","m","a","r","g","i","n">>
H_customer_segmentid == <<"c","u","s","t","o","m","e","r","_","s","e","g","m","e","n","t","i","d">>
H_customer_segment == <<"c","u","s","t","o","m","e","r","_","s","e","g","m","e","n","t">>
H_product_id == <<"p","r","o","d","u","c","t","_","i","d">>
H_product_variant == <<"p","r","o","d","u","c","t","_","v","a","r","i","a","n","t">>
H_sales_id == <<"s","a","l","e","s","_","i","d">>
H_sale_date == <<"s","a","l","e","_","d","a","t","e">>
H_units_sold == <<"u","n","i","t","s","_","s","o","l","d">>
H_sale_amount == <<"s","a","l","e","_","a","m","o","u","n","t">>
H_profit_margin == <<"p","r","o","f","i","t","_","m","a","r","g","i","n">>

\* str.lower() on one character
LowerOf(ch) ==
    CASE ch = "A" -> "a" [] ch = "B" -> "b" [] ch = "C" -> "c" [] ch = "D" -> "d"
      [] ch = "E" -> "e" [] ch = "F" -> "f" [] ch = "G" -> "g" [] ch = "H" -> "h"
      [] ch = "I" -> "i" [] ch = "J" -> "j" [] ch = "K" -> "k" [] ch = "L" -> "l"
      [] ch = "M" -> "m" [] ch = "N" -> "n" [] ch = "O" -> "o" [] ch = "P" -> "p"
      [] ch = "Q" -> "q" [] ch = "R" -> "r" [] ch = "S" -> "s" [] ch = "T" -> "t"
      [] ch = "U" -> "u" [] ch = "V" -> "v" [] ch = "W" -> "w" [] ch = "X" -> "x"
      [] ch = "Y" -> "y" [] ch = "Z" -> "z" [] OTHER -> ch

\* str.lower()
str_lower(s) == [i \in 1..Len(s) |-> LowerOf(s[i])] \o <<>>

IsSpace(ch) == ch = " "

\* str.strip(): leading and trailing white space removed
RECURSIVE str_lstrip(_)
str_lstrip(s) ==
    IF s # <<>> /\ IsSpace(Head(s)) THEN str_lstrip(Tail(s)) ELSE s

RECURSIVE str_rstrip(_)
str_rstrip(s) ==
    IF s # <<>> /\ IsSpace(s[Len(s)]) THEN str_rstrip(SubSeq(s, 1, Len(s) - 1)) ELSE s

str_strip(s) == str_rstrip(str_lstrip(s))

Digits == {"0", "1", "2", "3", "4", "5", "6", "7", "8", "9"}

IsDigit(ch) == ch \in Digits

DigitVal(ch) ==
    CASE ch = "0" -> 0 [] ch = "1" -> 1 [] ch = "2" -> 2 [] ch = "3" -> 3
      [] ch = "4" -> 4 [] ch = "5" -> 5 [] ch = "6" -> 6 [] ch = "7" -> 7
      [] ch = "8" -> 8 [] ch = "9" -> 9

\* int() of a run of decimal digits
RECURSIVE StrToInt(_)
StrToInt(s) ==
    IF s = <<>> THEN 0 ELSE 10 * StrToInt(SubSeq(s, 1, Len(s) - 1)) + DigitVal(s[Len(s)])

AllDigits(s) == s # <<>> /\ \A i \in 1..Len(s) : IsDigit(s[i])

\* Series.str.extract(r"[Cc](\d+)") / r"[Pp](\d+)": re.search, so the leftmost
\* prefix letter that a digit follows, then the longest run of digits after it;
\* <<>> stands for "no match" (NaN).
str_extract(s, prefix) ==
    LET starts == {i \in 1..(Len(s) - 1) : s[i] \in prefix /\ IsDigit(s[i + 1])}
    IN  IF starts = {} THEN <<>>
        ELSE LET i == CHOOSE k \in starts : \A m \in starts : k <= m
                 ends == {j \in (i + 1)..Len(s) : \A k \in (i + 1)..j : IsDigit(s[k])}
                 j == CHOOSE k \in ends : \A m \in ends : m <= k
             IN  SubSeq(s, i + 1, j)

\* .astype(str).str.strip().str.extract(...).astype("Int64") on one cell
extract_key(cell, prefix) ==
    LET m == str_extract(str_strip(cell), prefix)
    IN  IF m = <<>> THEN NA ELSE StrToInt(m)

\* pd.to_numeric(..., errors="coerce") on one cell (unsigned whole numbers)
to_numeric(cell) == IF AllDigits(cell) THEN StrToInt(cell) ELSE NA

\* --------------------------------------------------------------------------
\* DataFrames
\* --------------------------------------------------------------------------
\* a sequence given by comprehension, as the tuple of its values (computed once)
AsList(f) == f \o <<>>

\* pd.read_csv gives a frame a RangeIndex 0..n-1
RangeIndex(n) == AsList([i \in 1..n |-> i - 1])

Frame(columns, rows) == [columns |-> columns, index |-> RangeIndex(Len(rows)), rows |-> rows]

EmptyFrame == Frame(<<>>, <<>>)

\* position of a column label, 0 when the frame has no such column
ColIndex(df, name) ==
    LET hits == {i \in 1..Len(df.columns) : df.columns[i] = name}
    IN  IF hits = {} THEN 0 ELSE CHOOSE i \in hits : \A j \in hits : i <= j

HasCol(df, name) == ColIndex(df, name) # 0

\* df[name] as the sequence of its cells
Column(df, name) == AsList([r \in 1..Len(df.rows) |-> df.rows[r][ColIndex(df, name)]])

\* df.columns = df.columns.str.strip().str.lower()
normalize_headers(df) ==
    [df EXCEPT !.columns =
        AsList([i \in 1..Len(df.columns) |-> str_lower(str_strip(df.columns[i]))])]

\* df.rename(columns=mapping): mapping is a sequence of <<old, new>> pairs
rename(df, mapping) ==
    LET New(h) == IF \E k \in 1..Len(mapping) : mapping[k][1] = h
                  THEN mapping[CHOOSE k \in 1..Len(mapping) : mapping[k][1] = h][2]
                  ELSE h
    IN  [df EXCEPT !.columns = AsList([i \in 1..Len(df.columns) |-> New(df.columns[i])])]

\* the labels of `wanted` the frame lacks, in order (df[wanted] raises KeyError on any)
RECURSIVE missing_columns(_, _)
missing_columns(df, wanted) ==
    IF wanted = <<>> THEN <<>>
    ELSE (IF HasCol(df, Head(wanted)) THEN <<>> ELSE <<Head(wanted)>>)
         \o missing_columns(df, Tail(wanted))

\* df[wanted].copy(), for a frame that has every wanted column
select(df, wanted) ==
    [columns |-> wanted,
     index   |-> df.index,
     rows    |-> AsList([r \in 1..Len(df.rows) |->
                    AsList([c \in 1..Len(wanted) |-> df.rows[r][ColIndex(df, wanted[c])]])])]

\* df[name] = F(df[name]): every cell of one column replaced by F of it
apply_column(df, name, F(_)) ==
    [df EXCEPT !.rows = AsList([r \in 1..Len(df.rows) |->
        [df.rows[r] EXCEPT ![ColIndex(df, name)] = F(df.rows[r][ColIndex(df, name)])]])]

\* df[name] = <series>: the column replaced by new cells, one per row
assign(df, name, cells) ==
    [df EXCEPT !.rows = AsList([r \in 1..Len(df.rows) |->
                                  [df.rows[r] EXCEPT ![ColIndex(df, name)] = cells[r]]])]

\* the positions of 1..n that satisfy keep, in increasing order
RECURSIVE positions(_, _)
positions(n, keep) ==
    IF n = 0 THEN <<>>
    ELSE positions(n - 1, keep) \o (IF n \in keep THEN <<n>> ELSE <<>>)

\* boolean-mask row selection df[mask]: rows keep their order and index labels
take(df, keep) ==
    LET pos == positions(Len(df.rows), keep)
    IN  [columns |-> df.columns,
         index   |-> AsList([k \in 1..Len(pos) |-> df.index[pos[k]]]),
         rows    |-> AsList([k \in 1..Len(pos) |-> df.rows[pos[k]]])]

\* df.dropna(subset=names)
dropna(df, names) ==
    take(df, {r \in 1..Len(df.rows) :
                \A k \in 1..Len(names) : df.rows[r][ColIndex(df, names[k])] # NA})

\* drop_dupes dropping nothing
drop_dupes_none(df, key) == df

\* drop_dupes as keep="last" would have it
drop_dupes_keep_last(df, key) ==
    LET col == Column(df, key)
    IN  take(df, {r \in 1..Len(df.rows) : \A q \in (r + 1)..Len(df.rows) : col[q] # col[r]})

\* df.drop_duplicates(subset=[key], keep="first").copy()
drop_dupes(df, key) ==
    LET col == Column(df, key)
    IN  take(df, {r \in 1..Len(df.rows) : \A q \in 1..(r - 1) : col[q] # col[r]})

\* df.reset_index(drop=True)
reset_index(df) == [df EXCEPT !.index = RangeIndex(Len(df.rows))]

Raised(kind) == [error |-> kind, df |-> EmptyFrame]

Returned(df) == [error |-> "", df |-> df]

\* --------------------------------------------------------------------------
\* Normalisation functions
\* --------------------------------------------------------------------------
CustomerColumns == <<H_customer_segmentid, H_customer_segment>>

ProductColumns == <<H_product_id, H_product_variant>>

SalesColumns ==
    <<H_sales_id, H_customer_segmentid, H_product_id, H_units_sold, H_sale_date,
      H_sale_amount, H_profit_margin>>

CustomerPrefix == {"C", "c"}

ProductPrefix == {"P", "p"}

\* the frame after the header clean-up and the rename of each normaliser
customers_renamed(df) ==
    rename(normalize_headers(df), << <<H_customersegmentid, H_customer_segmentid>>,
                                     <<H_customersegment, H_customer_segment>> >>)

products_renamed(df) ==
    rename(df, << <<H_productid, H_product_id>>, <<H_productvariant, H_product_variant>> >>)

sales_renamed(df) ==
    rename(normalize_headers(df),
           << <<H_transactionid, H_sales_id>>,
              <<H_customersegmentid, H_customer_segmentid>>,
              <<H_productid, H_product_id>>,
              <<H_date, H_sale_date>>,
              <<H_unitssold, H_units_sold>>,
              <<H_revenue, H_sale_amount>>,
              <<H_profitmargin, H_profit_margin>> >>)

\* "C7" -> 7: .astype(str).str.strip().str.extract(r"[Cc](\d+)").astype("Int64")
customer_key(cell) == extract_key(cell, CustomerPrefix)

\* "P42" -> 42
product_key(cell) == extract_key(cell, ProductPrefix)

norm_customers(df) ==
    LET d2 == customers_renamed(df)
    IN  IF missing_columns(d2, CustomerColumns) # <<>> THEN Raised("KeyError")
        ELSE Returned(
                drop_dupes(
                    dropna(apply_column(select(d2, CustomerColumns),
                                        H_customer_segmentid, customer_key),
                           <<H_customer_segmentid>>),
                    H_customer_segmentid))

norm_products(df) ==
    LET d2 == products_renamed(df)
    IN  IF missing_columns(d2, ProductColumns) # <<>> THEN Raised("KeyError")
        ELSE Returned(
                drop_dupes(
                    dropna(apply_column(select(d2, ProductColumns), H_product_id, product_key),
                           <<H_product_id>>),
                    H_product_id))

\* df["sales_id"].isna().any() or df["sales_id"].duplicated().any()
needs_reindex(df) ==
    LET ids == Column(df, H_sales_id)
    IN  \/ \E r \in 1..Len(ids) : ids[r] = NA
        \/ \E q, r \in 1..Len(ids) : q < r /\ ids[q] = ids[r]

\* the id and measure columns of sales made numeric (lines 136-158)
sales_converted(df) ==
    apply_column(
      apply_column(
        apply_column(
          apply_column(
            apply_column(
              apply_column(df, H_customer_segmentid, customer_key),
              H_product_id, product_key),
            H_sales_id, to_numeric),
          H_units_sold, to_numeric),
        H_sale_amount, to_numeric),
      H_profit_margin, to_numeric)

\* if sales_id has a duplicate or a null: reset_index; then sales_id = index + 1
sales_renumbered(df) ==
    LET d == IF needs_reindex(df) THEN reset_index(df) ELSE df
    IN  assign(d, H_sales_id, AsList([r \in 1..Len(d.rows) |-> d.index[r] + 1]))

\* norm_sales without the check for missing columns: an empty frame instead
norm_sales_unchecked(df) ==
    LET d2 == sales_renamed(df)
    IN  IF missing_columns(d2, SalesColumns) # <<>> THEN Returned(Frame(SalesColumns, <<>>))
        ELSE Returned(
                sales_renumbered(
                    dropna(sales_converted(select(d2, SalesColumns)),
                           <<H_customer_segmentid, H_product_id, H_sale_amount>>)))

norm_sales(df) ==
    LET d2 == sales_renamed(df)
    IN  IF missing_columns(d2, SalesColumns) # <<>> THEN Raised("KeyError")
        ELSE Returned(
                sales_renumbered(
                    dropna(sales_converted(select(d2, SalesColumns)),
                           <<H_customer_segmentid, H_product_id, H_sale_amount>>)))

\* --------------------------------------------------------------------------
\* Date dimension
\* --------------------------------------------------------------------------
IsLeap(y) == (y % 4 = 0 /\ y % 100 # 0) \/ y % 400 = 0

DaysInMonth(y, m) ==
    CASE m \in {4, 6, 9, 11} -> 30
      [] m = 2 -> (IF IsLeap(y) THEN 29 ELSE 28)
      [] OTHER -> 31

\* the text before the first "-" and the text after it
RECURSIVE before_dash(_)
before_dash(s) ==
    IF s = <<>> \/ Head(s) = "-" THEN <<>> ELSE <<Head(s)>> \o before_dash(Tail(s))

after_dash(s) == SubSeq(s, Len(before_dash(s)) + 2, Len(s))

\* datetime.strptime(text, "%Y-%m-%d"): [error, y, m, d]; ValueError unless the
\* text is a four-digit year, a month and a day that name a calendar date
strptime(s) ==
    LET ys == before_dash(s)
        ms == before_dash(after_dash(s))
        ds == after_dash(after_dash(s))
        bad == [error |-> "ValueError", y |-> 0, m |-> 0, d |-> 0]
    IN  IF ~(AllDigits(ys) /\ Len(ys) = 4 /\ AllDigits(ms) /\ Len(ms) <= 2
             /\ AllDigits(ds) /\ Len(ds) <= 2 /\ Len(ys) + Len(ms) + Len(ds) + 2 = Len(s))
        THEN bad
        ELSE LET y == StrToInt(ys)
                 m == StrToInt(ms)
                 d == StrToInt(ds)
             IN  IF y >= 1 /\ m \in 1..12 /\ d >= 1 /\ d <= DaysInMonth(y, m)
                 THEN [error |-> "", y |-> y, m |-> m, d |-> d]
                 ELSE bad

\* days since 1970-01-01 of a calendar date (proleptic Gregorian)
ToOrdinal(y, m, d) ==
    LET yy  == IF m <= 2 THEN y - 1 ELSE y
        era == yy \div 400
        yoe == yy - era * 400
        mp  == IF m > 2 THEN m - 3 ELSE m + 9
        doy == (153 * mp + 2) \div 5 + d - 1
        doe == yoe * 365 + yoe \div 4 - yoe \div 100 + doy
    IN  era * 146097 + doe - 719468

\* the calendar date of a day number
FromOrdinal(n) ==
    LET z   == n + 719468
        era == z \div 146097
        doe == z - era * 146097
        yoe == (doe - doe \div 1460 + doe \div 36524 - doe \div 146096) \div 365
        doy == doe - (365 * yoe + yoe \div 4 - yoe \div 100)
        mp  == (5 * doy + 2) \div 153
        d   == doy - (153 * mp + 2) \div 5 + 1
        m   == IF mp < 10 THEN mp + 3 ELSE mp - 9
        y   == yoe + era * 400 + (IF m <= 2 THEN 1 ELSE 0)
    IN  [y |-> y, m |-> m, d |-> d]

\* pd.date_range(start=start, end=end, freq="D") as day numbers: every day from
\* start to end, both included; empty when end is before start
date_range(first, last) ==
    IF last < first THEN <<>> ELSE [i \in 1..(last - first + 1) |-> first + i - 1]

DateColumns == <<"date_id", "year", "month", "day">>

\* One row per day: <<date_id, year, month, day>> (full_date, month_name and
\* week are further renderings of the same day and are left out).
generate_date_dimension(start_date, end_date) ==
    LET s == strptime(start_date)
        e == strptime(end_date)
    IN  IF s.error # "" \/ e.error # "" THEN Raised("ValueError")
        ELSE LET days == date_range(ToOrdinal(s.y, s.m, s.d), ToOrdinal(e.y, e.m, e.d))
                 Row(n) == LET c == FromOrdinal(n)
                           IN  <<c.y * 10000 + c.m * 100 + c.d, c.y, c.m, c.d>>
             IN  Returned(Frame(DateColumns, [i \in 1..Len(days) |-> Row(days[i])]))

\* --------------------------------------------------------------------------
\* The SQLite store (PRAGMA foreign_keys = ON)
\* --------------------------------------------------------------------------
Tables == {"dim_date", "customer", "product", "sales"}

\* a database file that was never initialised
NoTables == [t \in Tables |-> [exists |-> FALSE, rows |-> <<>>]]

\* position of the primary key and of the foreign keys in a stored row
PkPos == 1

SalesSegPos == 2

SalesProdPos == 3

SalesAmountPos == 6

KeySet(db, t) == {db[t].rows[r][PkPos] : r \in 1..Len(db[t].rows)}

\* rows of sales that reference a row of parent table t
Referencing(db, t) ==
    IF ~db["sales"].exists \/ t \notin {"customer", "product"} THEN {}
    ELSE {r \in 1..Len(db["sales"].rows) :
            db["sales"].rows[r][IF t = "customer" THEN SalesSegPos ELSE SalesProdPos]
                \in KeySet(db, t)}

Done(db) == [error |-> "", db |-> db]

Failed(kind, db) == [error |-> kind, db |-> db]

\* DROP TABLE IF EXISTS t: an implicit DELETE FROM t comes first, which a
\* referencing sales row makes fail
sql_drop_if_exists(db, t) ==
    IF ~db[t].exists THEN Done(db)
    ELSE IF Referencing(db, t) # {} THEN Failed("IntegrityError", db)
    ELSE Done([db EXCEPT ![t] = [exists |-> FALSE, rows |-> <<>>]])

\* CREATE TABLE IF NOT EXISTS t
sql_create_if_not_exists(db, t) ==
    IF db[t].exists THEN Done(db) ELSE Done([db EXCEPT ![t] = [exists |-> TRUE, rows |-> <<>>]])

\* DELETE FROM t
sql_delete_from(db, t) ==
    IF ~db[t].exists THEN Failed("OperationalError", db)
    ELSE IF Referencing(db, t) # {} THEN Failed("IntegrityError", db)
    ELSE Done([db EXCEPT ![t].rows = <<>>])

sql_execute(db, stmt) ==
    CASE stmt[1] = "drop" -> sql_drop_if_exists(db, stmt[2])
      [] stmt[1] = "create" -> sql_create_if_not_exists(db, stmt[2])
      [] OTHER -> sql_delete_from(db, stmt[2])

\* cursor.execute for each statement in turn; the first error propagates
RECURSIVE execute_all(_, _)
execute_all(db, stmts) ==
    IF stmts = <<>> THEN Done(db)
    ELSE LET r == sql_execute(db, Head(stmts))
         IN  IF r.error # "" THEN r ELSE execute_all(r.db, Tail(stmts))

\* --------------------------------------------------------------------------
\* Schema and loaders
\* --------------------------------------------------------------------------
\* FK-safe order: the table that references comes before the tables it references
DropOrder == <<"sales", "product", "customer", "dim_date">>

CreateOrder == <<"dim_date", "customer", "product", "sales">>

Statements(op, tables) == [i \in 1..Len(tables) |-> <<op, tables[i]>>]

create_schema(db) ==
    execute_all(db, Statements("drop", DropOrder) \o Statements("create", CreateOrder))

delete_existing_records(db) ==
    execute_all(db, Statements("delete", <<"sales", "product", "customer", "dim_date">>))

\* the constraints of table t that the rows of a bulk insert must meet
ConstraintsHold(db, t, rows) ==
    /\ LET new == {rows[r][PkPos] : r \in 1..Len(rows)}
       IN  new \cap KeySet(db, t) = {} /\ Cardinality(new) = Len(rows)
    /\ t = "sales" =>
          \A r \in 1..Len(rows) :
             /\ rows[r][SalesSegPos] # NA
             /\ rows[r][SalesProdPos] # NA
             /\ rows[r][SalesAmountPos] # NA
             /\ rows[r][SalesSegPos] \in KeySet(db, "customer")
             /\ rows[r][SalesProdPos] \in KeySet(db, "product")

\* df.to_sql(t, connection, if_exists="append", index=False): one bulk insert,
\* rolled back as a whole when a constraint fails; a missing table is created
\* by pandas, without constraints
to_sql(db, t, df) ==
    IF ~db[t].exists THEN Done([db EXCEPT ![t] = [exists |-> TRUE, rows |-> df.rows]])
    ELSE IF ~ConstraintsHold(db, t, df.rows) THEN Failed("IntegrityError", db)
    ELSE Done([db EXCEPT ![t].rows = @ \o df.rows])

insert_dim_date(db, df) == to_sql(db, "dim_date", df)

insert_customers(db, df) == to_sql(db, "customer", df)

insert_products(db, df) == to_sql(db, "product", df)

\* SELECT <pk> FROM t, as a set
select_keys(db, t) ==
    IF db[t].exists THEN [error |-> "", keys |-> KeySet(db, t)]
    ELSE [error |-> "OperationalError", keys |-> {}]

\* insert_sales without the filter on product_id
insert_sales_customer_only(db, df) ==
    LET cs == select_keys(db, "customer")
        ps == select_keys(db, "product")
        d2 == take(df, {r \in 1..Len(df.rows) :
                          df.rows[r][ColIndex(df, H_customer_segmentid)] \in cs.keys})
        out == IF Len(d2.rows) > 0 THEN to_sql(db, "sales", d2) ELSE Done(db)
    IN  IF cs.error # "" \/ ps.error # ""
        THEN [error |-> "OperationalError", db |-> db,
              keys |-> [customer |-> {}, product |-> {}], df |-> EmptyFrame, inserted |-> FALSE]
        ELSE [error |-> out.error, db |-> out.db,
              keys |-> [customer |-> cs.keys, product |-> ps.keys], df |-> d2,
              inserted |-> Len(d2.rows) > 0]

\* insert_sales reading each key set from the other dimension table
insert_sales_swapped(db, df) ==
    LET cs == select_keys(db, "product")
        ps == select_keys(db, "customer")
        d1 == take(df, {r \in 1..Len(df.rows) :
                          df.rows[r][ColIndex(df, H_customer_segmentid)] \in cs.keys})
        d2 == take(d1, {r \in 1..Len(d1.rows) :
                          d1.rows[r][ColIndex(d1, H_product_id)] \in ps.keys})
        out == IF Len(d2.rows) > 0 THEN to_sql(db, "sales", d2) ELSE Done(db)
    IN  IF cs.error # "" \/ ps.error # ""
        THEN [error |-> "OperationalError", db |-> db,
              keys |-> [customer |-> {}, product |-> {}], df |-> EmptyFrame, inserted |-> FALSE]
        ELSE [error |-> out.error, db |-> out.db,
              keys |-> [customer |-> cs.keys, product |-> ps.keys], df |-> d2,
              inserted |-> Len(d2.rows) > 0]

\* [error, db, keys read back, the frame after the FK filter, whether it was inserted]
insert_sales(db, df) ==
    LET cs == select_keys(db, "customer")
        ps == select_keys(db, "product")
        d1 == take(df, {r \in 1..Len(df.rows) :
                          df.rows[r][ColIndex(df, H_customer_segmentid)] \in cs.keys})
        d2 == take(d1, {r \in 1..Len(d1.rows) :
                          d1.rows[r][ColIndex(d1, H_product_id)] \in ps.keys})
        out == IF Len(d2.rows) > 0 THEN to_sql(db, "sales", d2) ELSE Done(db)
    IN  IF cs.error # "" \/ ps.error # ""
        THEN [error |-> "OperationalError", db |-> db,
              keys |-> [customer |-> {}, product |-> {}], df |-> EmptyFrame, inserted |-> FALSE]
        ELSE [error |-> out.error, db |-> out.db,
              keys |-> [customer |-> cs.keys, product |-> ps.keys], df |-> d2,
              inserted |-> Len(d2.rows) > 0]

\* --------------------------------------------------------------------------
\* Direct calls of the normalisers (specification NormSpec)
\* --------------------------------------------------------------------------
UpperOf(ch) ==
    CASE ch = "a" -> "A" [] ch = "b" -> "B" [] ch = "c" -> "C" [] ch = "d" -> "D"
      [] ch = "e" -> "E" [] ch = "f" -> "F" [] ch = "g" -> "G" [] ch = "h" -> "H"
      [] ch = "i" -> "I" [] ch = "j" -> "J" [] ch = "k" -> "K" [] ch = "l" -> "L"
      [] ch = "m" -> "M" [] ch = "n" -> "N" [] ch = "o" -> "O" [] ch = "p" -> "P"
      [] ch = "q" -> "Q" [] ch = "r" -> "R" [] ch = "s" -> "S" [] ch = "t" -> "T"
      [] ch = "u" -> "U" [] ch = "v" -> "V" [] ch = "w" -> "W" [] ch = "x" -> "X"
      [] ch = "y" -> "Y" [] ch = "z" -> "Z" [] OTHER -> ch

\* characters of the code cells tried
Alphabet == {"C", "c", "P", "p", "0", "1", "2", " "}

\* every text over Alphabet of at most n characters
Texts(n) == UNION {[1..k -> Alphabet] : k \in 0..n}

Spaces(n) == [i \in 1..n |-> " "]

HeaderStyles == {"lower", "upper", "title"}

\* a raw header as a CSV might spell it: letter case changed, spaces around it
styled(h, style, lead, trail) ==
    LET body == CASE style = "upper" -> [i \in 1..Len(h) |-> UpperOf(h[i])]
                  [] style = "title" -> [i \in 1..Len(h) |-> IF i = 1 THEN UpperOf(h[i]) ELSE h[i]]
                  [] OTHER -> h
    IN  Spaces(lead) \o body \o Spaces(trail)

\* the raw headers with the columns in `mask` restyled
styled_headers(raw, mask, style, lead, trail) ==
    [i \in 1..Len(raw) |-> IF i \in mask THEN styled(raw[i], style, lead, trail) ELSE raw[i]]

RawCustomerColumns == <<H_customersegmentid, H_customersegment>>

RawProductColumns == <<H_productid, H_productvariant>>

RawSalesColumns ==
    <<H_transactionid, H_customersegmentid, H_productid, H_date, H_unitssold,
      H_revenue, H_profitmargin>>

\* the second cell of row r of a dimension file: it names the row it came from
RowName(r) == <<"n", CASE r = 1 -> "1" [] r = 2 -> "2" [] r = 3 -> "3" [] r = 4 -> "4"
                       [] r = 5 -> "5" [] OTHER -> "9">>

\* a dimension file with the given code cells, one row per code
DimFrame(columns, codes) ==
    Frame(columns, [r \in 1..Len(codes) |-> <<codes[r], RowName(r)>>])

\* one sales row: transaction id, segment code, product code, revenue
SalesRow(tid, seg, prod, amount) ==
    <<tid, seg, prod, <<"2","0","2","4","-","0","1","-","0","5">>, <<"3">>, amount, <<"1">>>>

\* code cells of the rows that test deduplication
CustomerDupCodes == {<<"c","1">>, <<"C","1">>, <<"C","2">>, <<"X","9">>}

ProductDupCodes == {<<"p","1">>, <<"P","1">>, <<"P","2">>, <<"X","9">>}

CodeSeqs(codes, n) == UNION {[1..k -> codes] : k \in 0..n}

\* the raw headers with one column restyled, or all of them
HeaderCases(raw) ==
    {styled_headers(raw, mask, style, lead, trail) :
        mask \in {{i} : i \in 1..Len(raw)} \cup {1..Len(raw)}, style \in HeaderStyles,
        lead \in 0..MaxPad, trail \in 0..MaxPad}

\* dimension files of one row, its code any text
CodeArgs(columns) == {DimFrame(columns, <<c>>) : c \in Texts(MaxCodeLen)}

\* dimension files whose codes repeat
DupArgs(columns, codes) == {DimFrame(columns, cs) : cs \in CodeSeqs(codes, MaxRows)}

\* dimension files of one good row under restyled headers
HeaderArgs(raw, code) == {DimFrame(h, <<code>>) : h \in HeaderCases(raw)}

\* sales files of one row: any segment code, any product code, restyled headers
SalesSegArgs ==
    {Frame(RawSalesColumns, <<SalesRow(<<"7">>, c, <<"P","1">>, <<"5">>)>>) : c \in Texts(MaxCodeLen)}

SalesProdArgs ==
    {Frame(RawSalesColumns, <<SalesRow(<<"7">>, <<"C","1">>, c, <<"5">>)>>) : c \in Texts(MaxCodeLen)}

SalesHeaderArgs ==
    {Frame(h, <<SalesRow(<<"7">>, <<"C","1">>, <<"P","1">>, <<"5">>)>>) :
        h \in HeaderCases(RawSalesColumns)}

NoCall == [fn |-> "none", arg |-> EmptyFrame, done |-> FALSE, result |-> Returned(EmptyFrame)]

Pending(fn, arg) == [fn |-> fn, arg |-> arg, done |-> FALSE, result |-> Returned(EmptyFrame)]

\* --------------------------------------------------------------------------
\* load_data_to_db, step by step
\* --------------------------------------------------------------------------
DimStart == <<"2","0","2","2","-","0","1","-","0","1">>

DimEnd == <<"2","0","2","6","-","0","1","-","0","1">>

NoError == [kind |-> "", at |-> ""]

NoFrames == [customers |-> EmptyFrame, products |-> EmptyFrame, sales |-> EmptyFrame]

NoKeys == [customer |-> {}, product |-> {}]

\* load_data_to_db leaving the schema alone when truncate is set
reset_schema_kept(db, t) ==
    IF t THEN [error |-> "", db |-> db, events |-> <<>>]
    ELSE LET c == create_schema(db)
         IN  [error |-> c.error, db |-> c.db, events |-> <<"create_schema">>]

\* create_schema(cursor), then delete_existing_records(cursor) if truncate
reset_schema(db, t) ==
    LET c == create_schema(db)
    IN  IF c.error # "" THEN [error |-> c.error, db |-> c.db, events |-> <<"create_schema">>]
        ELSE IF ~t THEN [error |-> "", db |-> c.db, events |-> <<"create_schema">>]
        ELSE LET d == delete_existing_records(c.db)
             IN  [error |-> d.error, db |-> d.db,
                  events |-> <<"create_schema", "delete_existing_records">>]

\* the first n rows of a frame (all of them when it has fewer)
first_rows(df, n) ==
    LET k == IF Len(df.rows) < n THEN Len(df.rows) ELSE n
    IN  [columns |-> df.columns, index |-> SubSeq(df.index, 1, k), rows |-> SubSeq(df.rows, 1, k)]

\* dim_date_df = generate_date_dimension("2022-01-01", "2026-01-01"), of which the
\* model loads the first MaxDimDates rows: no step of the load reads dim_date
\* back, and 1462 rows in every state only slow the search
dim_date_df ==
    [error |-> generate_date_dimension(DimStart, DimEnd).error,
     df    |-> first_rows(generate_date_dimension(DimStart, DimEnd).df, MaxDimDates)]

dim_date_step(db) ==
    LET g == dim_date_df
    IN  IF g.error # "" THEN [error |-> g.error, db |-> db, events |-> <<>>]
        ELSE LET r == insert_dim_date(db, g.df)
             IN  [error |-> r.error, db |-> r.db, events |-> <<"insert_dim_date">>]

customers_step(fs, db) ==
    IF ~fs.customers.exists
    THEN [error |-> "FileNotFoundError", db |-> db, df |-> EmptyFrame, events |-> <<>>]
    ELSE LET n == norm_customers(fs.customers.df)
         IN  IF n.error # ""
             THEN [error |-> n.error, db |-> db, df |-> EmptyFrame, events |-> <<>>]
             ELSE LET r == insert_customers(db, n.df)
                  IN  [error |-> r.error, db |-> r.db, df |-> n.df,
                       events |-> <<"insert_customers">>]

products_step(fs, db) ==
    IF ~fs.products.exists
    THEN [error |-> "FileNotFoundError", db |-> db, df |-> EmptyFrame, events |-> <<>>]
    ELSE LET n == norm_products(fs.products.df)
         IN  IF n.error # ""
             THEN [error |-> n.error, db |-> db, df |-> EmptyFrame, events |-> <<>>]
             ELSE LET r == insert_products(db, n.df)
                  IN  [error |-> r.error, db |-> r.db, df |-> n.df,
                       events |-> <<"insert_products">>]

sales_step(fs, db) ==
    IF ~fs.sales.exists
    THEN [error |-> "FileNotFoundError", db |-> db, df |-> EmptyFrame, keys |-> NoKeys,
          events |-> <<>>]
    ELSE LET n == norm_sales(fs.sales.df)
         IN  IF n.error # ""
             THEN [error |-> n.error, db |-> db, df |-> EmptyFrame, keys |-> NoKeys,
                   events |-> <<>>]
             ELSE LET r == insert_sales(db, n.df)
                  IN  [error |-> r.error, db |-> r.db, df |-> n.df, keys |-> r.keys,
                       events |-> IF r.error = "OperationalError" THEN <<>>
                                  ELSE IF r.inserted THEN <<"filter_sales", "insert_sales">>
                                  ELSE <<"filter_sales">>]

\* pc after a step that ended with the given error
After(err, next) == IF err = "" THEN next ELSE "failed"

ErrorAt(err, step) == IF err = "" THEN NoError ELSE [kind |-> err, at |-> step]

\* load_data_to_db(truncate) is entered and resets the schema
ResetSchema(t) ==
    /\ pc \in {"idle", "done", "failed"}
    /\ \E r \in {reset_schema(store, t)} :
           /\ store' = r.db
           /\ pc' = After(r.error, "dim_date")
           /\ error' = ErrorAt(r.error, "schema")
           /\ log' = r.events
    /\ prev' = [store |-> store, pc |-> pc, error |-> error, truncate |-> truncate]
    /\ truncate' = t
    /\ frames' = NoFrames
    /\ fkeys' = NoKeys
    /\ UNCHANGED <<files, call>>

LoadDimDate ==
    /\ pc = "dim_date"
    /\ \E r \in {dim_date_step(store)} :
           /\ store' = r.db
           /\ pc' = After(r.error, "customers")
           /\ error' = ErrorAt(r.error, "dim_date")
           /\ log' = log \o r.events
    /\ UNCHANGED <<files, truncate, frames, fkeys, prev, call>>

LoadCustomers ==
    /\ pc = "customers"
    /\ \E r \in {customers_step(files, store)} :
           /\ store' = r.db
           /\ pc' = After(r.error, "products")
           /\ error' = ErrorAt(r.error, "customers")
           /\ log' = log \o r.events
           /\ frames' = [frames EXCEPT !.customers = r.df]
    /\ UNCHANGED <<files, truncate, fkeys, prev, call>>

LoadProducts ==
    /\ pc = "products"
    /\ \E r \in {products_step(files, store)} :
           /\ store' = r.db
           /\ pc' = After(r.error, "sales")
           /\ error' = ErrorAt(r.error, "products")
           /\ log' = log \o r.events
           /\ frames' = [frames EXCEPT !.products = r.df]
    /\ UNCHANGED <<files, truncate, fkeys, prev, call>>

LoadSales ==
    /\ pc = "sales"
    /\ \E r \in {sales_step(files, store)} :
           /\ store' = r.db
           /\ pc' = After(r.error, "report")
           /\ error' = ErrorAt(r.error, "sales")
           /\ log' = log \o r.events
           /\ frames' = [frames EXCEPT !.sales = r.df]
           /\ fkeys' = r.keys
    /\ UNCHANGED <<files, truncate, prev, call>>

\* conn.commit(), print_table_row_counts, conn.close(), the closing message
Report ==
    /\ pc = "report"
    /\ pc' = "done"
    /\ log' = log \o <<"row_counts", "completed">>
    /\ UNCHANGED <<files, store, truncate, frames, fkeys, error, prev, call>>

\* --------------------------------------------------------------------------
\* The input files tried
\* --------------------------------------------------------------------------
Absent == [exists |-> FALSE, df |-> EmptyFrame]

Present(df) == [exists |-> TRUE, df |-> df]

PipeCustomerCodes == {<<"C","1">>}

PipeProductCodes == {<<"P","1">>}

PipeCustomerFiles ==
    {Absent, Present(Frame(<<H_customersegmentid>>, <<>>))}
    \cup {Present(DimFrame(RawCustomerColumns, cs)) : cs \in CodeSeqs(PipeCustomerCodes, MaxDimRows)}

PipeProductFiles ==
    {Absent, Present(Frame(<<H_productid>>, <<>>))}
    \cup {Present(DimFrame(RawProductColumns, cs)) : cs \in CodeSeqs(PipeProductCodes, MaxDimRows)}

PipeSalesRows ==
    {SalesRow(tid, <<"C","1">>, <<"P","1">>, <<"5">>) : tid \in {<<"1">>, <<"2">>, <<>>}}
    \cup {SalesRow(<<"1">>, <<"C","2">>, <<"P","2">>, <<"5">>),
          SalesRow(<<"2">>, <<"C","1">>, <<"P","1">>, <<>>)}

PipeSalesFiles ==
    {Absent, Present(Frame(SubSeq(RawSalesColumns, 1, 6), <<>>))}
    \cup {Present(Frame(RawSalesColumns, rows)) : rows \in CodeSeqs(PipeSalesRows, MaxSalesRows)}

Init ==
    /\ files \in [customers : PipeCustomerFiles, products : PipeProductFiles,
                  sales : PipeSalesFiles]
    /\ store = NoTables
    /\ pc = "idle"
    /\ truncate = FALSE
    /\ frames = NoFrames
    /\ fkeys = NoKeys
    /\ error = NoError
    /\ log = <<>>
    /\ prev = [store |-> NoTables, pc |-> "idle", error |-> NoError, truncate |-> FALSE]
    /\ call = NoCall

Next ==
    \/ \E t \in BOOLEAN : ResetSchema(t)
    \/ LoadDimDate
    \/ LoadCustomers
    \/ LoadProducts
    \/ LoadSales
    \/ Report

Spec == Init /\ [][Next]_vars

\* --------------------------------------------------------------------------
\* Specifications of direct calls
\* --------------------------------------------------------------------------
\* the variables of load_data_to_db, at rest
PipelineIdle ==
    /\ files = [customers |-> Absent, products |-> Absent, sales |-> Absent]
    /\ pc = "idle"
    /\ truncate = FALSE
    /\ frames = NoFrames
    /\ fkeys = NoKeys
    /\ error = NoError
    /\ log = <<>>
    /\ prev = [store |-> NoTables, pc |-> "idle", error |-> NoError, truncate |-> FALSE]

PipelineVars == <<files, pc, truncate, frames, fkeys, error, log, prev>>

NormInit ==
    /\ PipelineIdle
    /\ store = NoTables
    /\ \/ \E a \in CodeArgs(RawCustomerColumns) : call = Pending("norm_customers", a)
       \/ \E a \in DupArgs(RawCustomerColumns, CustomerDupCodes) :
             call = Pending("norm_customers", a)
       \/ \E a \in HeaderArgs(RawCustomerColumns, <<"C","1">>) :
             call = Pending("norm_customers", a)
       \/ \E a \in CodeArgs(RawProductColumns) : call = Pending("norm_products", a)
       \/ \E a \in DupArgs(RawProductColumns, ProductDupCodes) :
             call = Pending("norm_products", a)
       \/ \E a \in HeaderArgs(RawProductColumns, <<"P","1">>) :
             call = Pending("norm_products", a)
       \/ \E a \in SalesSegArgs : call = Pending("norm_sales", a)
       \/ \E a \in SalesProdArgs : call = Pending("norm_sales", a)
       \/ \E a \in SalesHeaderArgs : call = Pending("norm_sales", a)

CallNormCustomers ==
    /\ call.fn = "norm_customers" /\ ~call.done
    /\ call' = [call EXCEPT !.done = TRUE, !.result = norm_customers(call.arg)]
    /\ UNCHANGED <<store, PipelineVars>>

CallNormProducts ==
    /\ call.fn = "norm_products" /\ ~call.done
    /\ call' = [call EXCEPT !.done = TRUE, !.result = norm_products(call.arg)]
    /\ UNCHANGED <<store, PipelineVars>>

CallNormSales ==
    /\ call.fn = "norm_sales" /\ ~call.done
    /\ call' = [call EXCEPT !.done = TRUE, !.result = norm_sales(call.arg)]
    /\ UNCHANGED <<store, PipelineVars>>

NormNext == CallNormCustomers \/ CallNormProducts \/ CallNormSales

NormSpec == NormInit /\ [][NormNext]_vars

\* --- generate_date_dimension called on its own (specification DateSpec) ---
DigitChar(n) ==
    CASE n = 0 -> "0" [] n = 1 -> "1" [] n = 2 -> "2" [] n = 3 -> "3" [] n = 4 -> "4"
      [] n = 5 -> "5" [] n = 6 -> "6" [] n = 7 -> "7" [] n = 8 -> "8" [] n = 9 -> "9"

\* the text "YYYY-MM-DD" of three numbers, whether or not they name a date
DateText(y, m, d) ==
    <<DigitChar(y \div 1000), DigitChar((y \div 100) % 10), DigitChar((y \div 10) % 10),
      DigitChar(y % 10), "-", DigitChar(m \div 10), DigitChar(m % 10), "-",
      DigitChar(d \div 10), DigitChar(d % 10)>>

DateTexts ==
    {DateText(y, m, d) : y \in {2023, 2024}, m \in {1, 2, 3, 12}, d \in {1, 28, 29, 31}}
    \cup {<<"2","0","2","4","/","0","1","/","0","1">>}

DateInit ==
    /\ PipelineIdle
    /\ store = NoTables
    /\ call \in {[fn |-> "generate_date_dimension", arg |-> <<a, b>>, done |-> FALSE,
                  result |-> Returned(EmptyFrame)] : a \in DateTexts, b \in DateTexts}

CallGenerateDateDimension ==
    /\ call.fn = "generate_date_dimension" /\ ~call.done
    /\ call' = [call EXCEPT !.done = TRUE,
                            !.result = generate_date_dimension(call.arg[1], call.arg[2])]
    /\ UNCHANGED <<store, PipelineVars>>

DateNext == CallGenerateDateDimension

DateSpec == DateInit /\ [][DateNext]_vars

\* --- the schema functions and loaders called on their own (SchemaSpec) ---
SchemaKeys == {1, 2}

SchemaCall(fn, before, err) ==
    [fn |-> fn, arg |-> before, done |-> TRUE,
     result |-> IF err = "" THEN Returned(EmptyFrame) ELSE Raised(err)]

SchemaInit ==
    /\ PipelineIdle
    /\ store = NoTables
    /\ call = NoCall

CallCreateSchema ==
    /\ \E r \in {create_schema(store)} :
          /\ store' = r.db
          /\ call' = SchemaCall("create_schema", store, r.error)
    /\ UNCHANGED PipelineVars

CallDeleteExistingRecords ==
    /\ \E r \in {delete_existing_records(store)} :
          /\ store' = r.db
          /\ call' = SchemaCall("delete_existing_records", store, r.error)
    /\ UNCHANGED PipelineVars

CallInsertCustomers ==
    /\ store["customer"].exists
    /\ \E k \in SchemaKeys :
         \E r \in {insert_customers(store, Frame(CustomerColumns, << <<k, <<"A">>>> >>))} :
            /\ store' = r.db
            /\ call' = SchemaCall("insert_customers", store, r.error)
    /\ UNCHANGED PipelineVars

CallInsertProducts ==
    /\ store["product"].exists
    /\ \E k \in SchemaKeys :
         \E r \in {insert_products(store, Frame(ProductColumns, << <<k, <<"V">>>> >>))} :
            /\ store' = r.db
            /\ call' = SchemaCall("insert_products", store, r.error)
    /\ UNCHANGED PipelineVars

CallInsertSales ==
    /\ store["sales"].exists /\ store["customer"].exists /\ store["product"].exists
    /\ \E id \in SchemaKeys, seg \in SchemaKeys, prod \in SchemaKeys :
         \E r \in {insert_sales(store, Frame(SalesColumns,
                        << <<id, seg, prod, 3, <<"d">>, 5, 1>> >>))} :
            /\ store' = r.db
            /\ call' = SchemaCall("insert_sales", store, r.error)
    /\ UNCHANGED PipelineVars

SchemaNext ==
    \/ CallCreateSchema
    \/ CallDeleteExistingRecords
    \/ CallInsertCustomers
    \/ CallInsertProducts
    \/ CallInsertSales

SchemaSpec == SchemaInit /\ [][SchemaNext]_vars

\* --------------------------------------------------------------------------
\* Properties of load_data_to_db (specification Spec)
\* --------------------------------------------------------------------------
Logged(e) == \E i \in 1..Len(log) : log[i] = e

FrameKeys(df) == {df.rows[r][PkPos] : r \in 1..Len(df.rows)}

\* the rows of the normalised sales frame whose two keys are both dimension keys
\* of this run's normalised dimension frames
Resolving(df) ==
    take(df, {r \in 1..Len(df.rows) :
                /\ df.rows[r][SalesSegPos] \in FrameKeys(frames.customers)
                /\ df.rows[r][SalesProdPos] \in FrameKeys(frames.products)})

\* C1: after a completed run every row of sales references a customer row and a
\* product row; the rows loaded are exactly the rows of the normalised sales
\* frame that resolve, so an orphan is dropped by insert_sales and is never what
\* makes the load fail.
ReferentialIntegrity ==
    /\ pc = "done" =>
          /\ \A r \in 1..Len(store["sales"].rows) :
                /\ store["sales"].rows[r][SalesSegPos] \in KeySet(store, "customer")
                /\ store["sales"].rows[r][SalesProdPos] \in KeySet(store, "product")
          /\ store["sales"].rows = Resolving(frames.sales).rows
    /\ (pc = "failed" /\ error.at = "sales") => error.kind \in {"FileNotFoundError", "KeyError"}

\* C1 witness: a run completed that dropped an orphan and loaded another row
OrphanDropped ==
    /\ pc = "done"
    /\ Len(store["sales"].rows) > 0
    /\ Len(store["sales"].rows) < Len(frames.sales.rows)

\* C2 (as claimed): the sales_id values loaded by a completed run are 1..N in
\* order, N being the number of rows loaded.
DenseSalesIds ==
    pc = "done" =>
        \A r \in 1..Len(store["sales"].rows) : store["sales"].rows[r][PkPos] = r

\* C3: a run with truncate=True that follows a completed run with truncate=True
\* over the same files completes too and leaves every table with the contents
\* the first run left.
RerunIdempotent ==
    (pc \in {"done", "failed"} /\ prev.pc = "done" /\ truncate /\ prev.truncate)
        => (pc = "done" /\ store = prev.store)

\* C3 witness: a second truncate run completed over a loaded sales table
RerunCompleted ==
    /\ pc = "done" /\ prev.pc = "done" /\ truncate /\ prev.truncate
    /\ Len(store["sales"].rows) > 0

Rank(e) ==
    CASE e = "create_schema" -> 1
      [] e = "delete_existing_records" -> 2
      [] e = "insert_dim_date" -> 3
      [] e = "insert_customers" -> 4
      [] e = "insert_products" -> 5
      [] e = "filter_sales" -> 6
      [] e = "insert_sales" -> 7
      [] e = "row_counts" -> 8
      [] OTHER -> 9

\* C6: the steps of a run happen in the order schema reset, dim_date insert,
\* customer insert, product insert, sales filter; and the key sets the filter
\* read from the store are the key sets of this run's normalised customer and
\* product frames.
DimensionsBeforeFilter ==
    /\ \A i, j \in 1..Len(log) : i < j => Rank(log[i]) < Rank(log[j])
    /\ Logged("filter_sales") =>
          /\ Logged("create_schema") /\ Logged("insert_dim_date")
          /\ Logged("insert_customers") /\ Logged("insert_products")
          /\ frames.customers = norm_customers(files.customers.df).df
          /\ frames.products = norm_products(files.products.df).df
          /\ fkeys.customer = FrameKeys(frames.customers)
          /\ fkeys.product = FrameKeys(frames.products)

\* C6 witness: the filter of a second run read a customer key and no product key
FilterReadKeys ==
    /\ Logged("filter_sales") /\ prev.pc = "done"
    /\ fkeys.customer = {1} /\ fkeys.product = {}

\* an input file the run cannot use: absent, or short of a required column
NoCustomers ==
    \/ ~files.customers.exists
    \/ missing_columns(customers_renamed(files.customers.df), CustomerColumns) # <<>>

NoProducts ==
    \/ ~files.products.exists
    \/ missing_columns(products_renamed(files.products.df), ProductColumns) # <<>>

NoSales ==
    \/ ~files.sales.exists
    \/ missing_columns(sales_renamed(files.sales.df), SalesColumns) # <<>>

Raises(step, file) ==
    (pc = "failed" /\ error.at = step)
        => error.kind = (IF file.exists THEN "KeyError" ELSE "FileNotFoundError")

\* C7: with an input file absent or short of a required column the run raises at
\* that entity's step; it attempts no insert for that entity or a later one and
\* emits neither the row counts nor the closing message.
UnusableInputAborts ==
    /\ NoCustomers =>
          /\ pc \notin {"products", "sales", "report", "done"}
          /\ Raises("customers", files.customers)
          /\ ~Logged("insert_customers") /\ ~Logged("insert_products")
          /\ ~Logged("filter_sales") /\ ~Logged("insert_sales")
          /\ ~Logged("row_counts") /\ ~Logged("completed")
    /\ NoProducts =>
          /\ pc \notin {"sales", "report", "done"}
          /\ Raises("products", files.products)
          /\ ~Logged("insert_products")
          /\ ~Logged("filter_sales") /\ ~Logged("insert_sales")
          /\ ~Logged("row_counts") /\ ~Logged("completed")
    /\ NoSales =>
          /\ pc \notin {"report", "done"}
          /\ Raises("sales", files.sales)
          /\ ~Logged("filter_sales") /\ ~Logged("insert_sales")
          /\ ~Logged("row_counts") /\ ~Logged("completed")

\* C7 witness: a run raised KeyError at the sales step, both dimensions loaded
SalesColumnsMissing ==
    /\ pc = "failed" /\ error.at = "sales" /\ error.kind = "KeyError"
    /\ Logged("insert_customers") /\ Logged("insert_products")

\* the three input files exist and carry the required columns
Usable == ~NoCustomers /\ ~NoProducts /\ ~NoSales

\* the keys of the rows are pairwise distinct and none is null
DistinctKeys(rows) ==
    LET keys == {rows[r][PkPos] : r \in 1..Len(rows)}
    IN  Cardinality(keys) = Len(rows) /\ NA \notin keys

FullMatch(code, prefix) ==
    Len(code) >= 2 /\ code[1] \in prefix /\ AllDigits(Tail(code))

\* rows of the result that came from row r of the argument (by index label)
FromRow(out, r) == {k \in 1..Len(out.rows) : out.index[k] = r - 1}

\* the code in column col of every row of arg is treated as the claim says
CodesAnchored(arg, out, col, prefix) ==
    \A r \in 1..Len(arg.rows) :
        LET code == str_strip(arg.rows[r][col])
        IN  IF FullMatch(code, prefix)
            THEN \A k \in FromRow(out, r) :
                    out.rows[k][ColIndex(out, IF prefix = CustomerPrefix
                                              THEN H_customer_segmentid
                                              ELSE H_product_id)] = StrToInt(Tail(code))
            ELSE FromRow(out, r) = {}

\* a well-formed code is not lost: its key is a key of the result
CodesKept(arg, out, col, prefix) ==
    \A r \in 1..Len(arg.rows) :
        LET code == str_strip(arg.rows[r][col])
        IN  FullMatch(code, prefix) => StrToInt(Tail(code)) \in FrameKeys(out)

\* C4 (as claimed): a code that is <prefix><digits> as a whole gives the integer
\* value of its digits as key; a row whose code is anything else is absent from
\* the output of norm_customers, norm_products and norm_sales.
KeyExtractionAnchored ==
    call.done =>
        /\ (call.fn = "norm_customers" /\ call.arg.columns = RawCustomerColumns) =>
              /\ CodesAnchored(call.arg, call.result.df, 1, CustomerPrefix)
              /\ CodesKept(call.arg, call.result.df, 1, CustomerPrefix)
        /\ (call.fn = "norm_products" /\ call.arg.columns = RawProductColumns) =>
              /\ CodesAnchored(call.arg, call.result.df, 1, ProductPrefix)
              /\ CodesKept(call.arg, call.result.df, 1, ProductPrefix)
        /\ (call.fn = "norm_sales" /\ call.arg.columns = RawSalesColumns) =>
              /\ CodesAnchored(call.arg, call.result.df, 2, CustomerPrefix)
              /\ CodesAnchored(call.arg, call.result.df, 3, ProductPrefix)

\* the rows of out are the first rows of arg for each key Key extracts
FirstPerKey(arg, out, Key(_)) ==
    /\ \A j, k \in 1..Len(out.rows) : j < k => out.rows[j][PkPos] # out.rows[k][PkPos]
    /\ \A j, k \in 1..Len(out.rows) : j < k => out.index[j] < out.index[k]
    /\ \A k \in 1..Len(out.rows) :
          LET i == out.index[k] + 1
          IN  /\ i \in 1..Len(arg.rows)
              /\ out.rows[k] = <<Key(arg.rows[i][1]), arg.rows[i][2]>>
              /\ \A j \in 1..(i - 1) : Key(arg.rows[j][1]) # Key(arg.rows[i][1])
    /\ \A i \in 1..Len(arg.rows) :
          Key(arg.rows[i][1]) # NA => Key(arg.rows[i][1]) \in FrameKeys(out)

\* C5: norm_customers and norm_products return at most one row per extracted
\* key, namely the first row of the input that bears the key, with the other
\* field of that row.
DedupKeepsFirst ==
    call.done =>
        /\ (call.fn = "norm_customers" /\ call.arg.columns = RawCustomerColumns) =>
              FirstPerKey(call.arg, call.result.df, customer_key)
        /\ (call.fn = "norm_products" /\ call.arg.columns = RawProductColumns) =>
              FirstPerKey(call.arg, call.result.df, product_key)

\* C5 witness: codes c1, C1, C2, X9 gave key 1 with the first row's name and key 2
ExampleDeduplicated ==
    /\ call.done /\ call.fn = "norm_customers"
    /\ call.arg = DimFrame(RawCustomerColumns,
                           << <<"c","1">>, <<"C","1">>, <<"C","2">>, <<"X","9">> >>)
    /\ call.result.df.rows = << <<1, <<"n","1">>>>, <<2, <<"n","3">>>> >>

\* the headers are the raw names but for letter case and spaces around them
SpelledAs(df, raw) == normalize_headers(df).columns = raw

Plain(df, raw) == [df EXCEPT !.columns = raw]

\* C9 (as claimed): whatever the letter case of the headers and the spaces
\* around them, each normaliser returns a frame of its canonical columns, the
\* one it returns for the lower-case trimmed headers.
HeaderInsensitive ==
    call.done =>
        /\ (call.fn = "norm_customers" /\ SpelledAs(call.arg, RawCustomerColumns)) =>
              /\ call.result.error = ""
              /\ call.result.df.columns = CustomerColumns
              /\ call.result = norm_customers(Plain(call.arg, RawCustomerColumns))
        /\ (call.fn = "norm_products" /\ SpelledAs(call.arg, RawProductColumns)) =>
              /\ call.result.error = ""
              /\ call.result.df.columns = ProductColumns
              /\ call.result = norm_products(Plain(call.arg, RawProductColumns))
        /\ (call.fn = "norm_sales" /\ SpelledAs(call.arg, RawSalesColumns)) =>
              /\ call.result.error = ""
              /\ call.result.df.columns = SalesColumns
              /\ call.result = norm_sales(Plain(call.arg, RawSalesColumns))

\* --------------------------------------------------------------------------
\* Properties of generate_date_dimension (specification DateSpec)
\* --------------------------------------------------------------------------
\* date a is an earlier calendar day than date b
Before(a, b) ==
    \/ a.y < b.y
    \/ a.y = b.y /\ a.m < b.m
    \/ a.y = b.y /\ a.m = b.m /\ a.d < b.d

\* the date_id of the calendar day after the one with year y, month m, day d
NextDateId(y, m, d) ==
    IF d < DaysInMonth(y, m) THEN y * 10000 + m * 100 + d + 1
    ELSE IF m < 12 THEN y * 10000 + (m + 1) * 100 + 1
    ELSE (y + 1) * 10000 + 101

\* a frame of (end - start).days + 1 rows, one per calendar day from start to end
OneRowPerDay(rows, s, e) ==
    /\ Len(rows) = ToOrdinal(e.y, e.m, e.d) - ToOrdinal(s.y, s.m, s.d) + 1
    /\ rows[1] = <<s.y * 10000 + s.m * 100 + s.d, s.y, s.m, s.d>>
    /\ rows[Len(rows)][1] = e.y * 10000 + e.m * 100 + e.d
    /\ \A i \in 1..(Len(rows) - 1) :
          rows[i + 1][1] = NextDateId(rows[i][2], rows[i][3], rows[i][4])

\* C10 (as claimed): generate_date_dimension raises when end is before start,
\* and for start <= end returns (end - start).days + 1 rows, one per day.
ReversedRangeRejected ==
    (call.done /\ strptime(call.arg[1]).error = "" /\ strptime(call.arg[2]).error = "") =>
        LET s == strptime(call.arg[1])
            e == strptime(call.arg[2])
        IN  IF Before(e, s) THEN call.result.error # ""
            ELSE call.result.error = "" /\ OneRowPerDay(call.result.df.rows, s, e)

\* --------------------------------------------------------------------------
\* Properties of the schema functions (specification SchemaSpec)
\* --------------------------------------------------------------------------
EmptySchema == [t \in Tables |-> [exists |-> TRUE, rows |-> <<>>]]

\* C8 (as claimed): on a database that has no table yet create_schema succeeds
\* and leaves the four tables empty, and delete_existing_records completes
\* without error; the order sales, product, customer, dim_date keeps both clear
\* of the foreign keys of sales.
SchemaOpsSafe ==
    (call.done /\ call.fn \in {"create_schema", "delete_existing_records"}) =>
        /\ call.result.error # "IntegrityError"
        /\ call.arg = NoTables =>
              /\ call.result.error = ""
              /\ call.fn = "create_schema" => store = EmptySchema

====
